---- MODULE Spec2Model ----
(***************************************************************************)
(* The detection inference service of caochun/cnet, in its three variants: *)
(*   "http"    examples/yolo_inference_ultralytics.py  (HTTPServer + loader *)
(*             thread; examples/yolo_inference.py is the same server with a *)
(*             placeholder detector, the "stub" flavour)                    *)
(*   "handler" the methods of that server's YOLOInferenceHandler, applied   *)
(*             to handler objects in the states the program builds them in  *)
(*   "grpc"    examples/yolo_grpc_server.py      (thread pool, shared self) *)
(*   "fastapi" examples/yolo_inference_service.py (module globals)          *)
(*   "store"   the results directory the save routines write to            *)
(*   "annot"   the box conversion and the drawing of the save routines     *)
(*                                                                         *)
(* Confidences and thresholds are percentages: 0.5 is 50, 0.45 is 45.      *)
(***************************************************************************)
EXTENDS Integers, Sequences, FiniteSets, TLC

VARIABLES
    variant,    \* which program this behaviour is a run of
    flavour,    \* "ultra" (yolo_inference_ultralytics.py) or "stub" (yolo_inference.py)
    \* ---- HTTP server (variant "http") and handler objects (variant "handler")
    lpc,        \* position of load_model_thread
    tmp,        \* the loader's TempHandler object
    factory,    \* server.RequestHandlerClass: "class" or "patched" (create_handler)
    spc,        \* position of the (single-threaded) server loop
    via,        \* the factory the current request's handler was built by
    req,        \* the request being handled
    h,          \* the handler object of the current (or last) request
    resp,       \* the response written for the current request
    call,       \* what the last Predict did (sources read, detector calls, ...)
    hist,       \* what has happened before the current request
    \* ---- shared registry of the gRPC servicer / the FastAPI module globals
    model,      \* self.model / global model
    model_path, \* self.model_path / global model_path
    classes,    \* self.classes / global classes
    wpc,        \* gRPC: position of each pool worker
    wl,         \* gRPC: locals of the call each worker runs
    wresp,      \* gRPC: the reply each worker returned last
    fpc,        \* FastAPI: "boot", "serving", "dead" (startup raised)
    \* ---- the results directory (variant "store")
    now,        \* int(time.time()): the clock, in seconds
    saves,      \* the saves completed so far: second, uuid drawn, file written
    \* ---- one box through the detection loop and the save routine (variant "annot")
    ann         \* the box, its detection, the corners and label drawn, the buffers

vars == <<variant, flavour, lpc, tmp, factory, spc, via, req, h, resp, call, hist,
          model, model_path, classes, wpc, wl, wresp, fpc, now, saves, ann>>

httpVars == <<lpc, tmp, factory, spc, via, req, h, resp, call, hist>>
regVars  == <<model, model_path, classes>>
grpcVars == <<wpc, wl, wresp>>
storeVars == <<now, saves>>

----------------------------------------------------------------------------
(* Values *)

NoModel == "None"       \* Python's None as a model handle
NoImage == "None"       \* load_image returning None
NoArtifact == "None"    \* draw_boxes_and_save returning None (JSON null)
Absent  == -1           \* a key the request's config does not carry

DefaultConf    == 50    \* confidence_threshold = 0.5
DefaultIou     == 45    \* iou_threshold = 0.45
DefaultImgSize == 640
DefaultMaxDet  == 100

MaxRaw == 2             \* most detections the detector emits in one call
MaxCap == 2             \* small values of max_detections tried beside the default

Min(a, b) == IF a < b THEN a ELSE b

\* Weights files: "a" and "b" load, "bad" makes YOLO(path) raise.
GoodPaths == {"a", "b"}
Paths     == GoodPaths \cup {"bad"}

\* model.names of each weights file; "b" exposes none (the fallback list is used).
ModelNames(p) == IF p = "a" THEN <<"person", "car">> ELSE <<>>

\* class ids the detector emits: 3 is within the fallback table and beyond that of
\* "a", 5 is beyond both
ClassIds == {3, 5}

\* An image source field: "" (missing, None or empty), "ok" (resolves), "bad" (fails).
SrcVals == {"", "ok", "bad"}

\* A remote URL can also be "silent": the connection is accepted and never answered.
UrlVals == SrcVals \cup {"silent"}

ConfVals == {40, 95}
RawDets  == [cls : ClassIds, conf : ConfVals]
RawSeqs  == UNION {[1..n -> RawDets] : n \in 0..MaxRaw}

----------------------------------------------------------------------------
(* Result processing *)

\* the table entry or nothing: no synthesized name for an id beyond the table
ClassNameNoFallback(cls, id) ==
    IF id < Len(cls) THEN cls[id + 1] ELSE ""

\* class_name = classes[class_id] if class_id < len(classes) else f"class_{class_id}"
ClassName(cls, id) ==
    IF id < Len(cls) THEN cls[id + 1] ELSE "class_" \o ToString(id)

\* one detection dict of the response, from one box of the detector's result
MkDetection(cls, d) ==
    [class_id |-> d.cls, class_name |-> ClassName(cls, d.cls), confidence |-> d.conf]

MapDetections(cls, raw) == [i \in 1..Len(raw) |-> MkDetection(cls, raw[i])]

\* if confidence >= self.confidence_threshold: detections.append(detection)
FilterConf(s, t) == SelectSeq(s, LAMBDA d : d.confidence >= t)

\* list.sort(key=confidence, reverse=True): Python's sort is stable, also reversed
RECURSIVE InsertDesc(_, _)
InsertDesc(s, d) ==
    IF s = <<>> THEN <<d>>
    ELSE IF Head(s).confidence >= d.confidence
         THEN <<Head(s)>> \o InsertDesc(Tail(s), d)
         ELSE <<d>> \o s

RECURSIVE SortDescFrom(_, _)
SortDescFrom(acc, s) ==
    IF s = <<>> THEN acc ELSE SortDescFrom(InsertDesc(acc, Head(s)), Tail(s))

SortDesc(s) == SortDescFrom(<<>>, s)

\* detections[:n]
Take(s, n) == SubSeq(s, 1, Min(n, Len(s)))

----------------------------------------------------------------------------
(* Requests of the HTTP server *)

NoCfg == [confidence |-> Absent, iou_threshold |-> Absent, image_size |-> Absent,
          max_detections |-> Absent, device |-> ""]

\* request_data['config'] of a POST /predict: the keys a client may send
Cfgs == { NoCfg,
          [NoCfg EXCEPT !.confidence = 30],
          [NoCfg EXCEPT !.confidence = 90],
          [NoCfg EXCEPT !.max_detections = 1],
          [confidence |-> 90, iou_threshold |-> 60, image_size |-> 320,
           max_detections |-> 1, device |-> "cuda"] }

HasOverride(c) ==
    c.confidence # Absent \/ c.iou_threshold # Absent \/ c.image_size # Absent

MkReq(op, p, d, u, c) ==
    [op |-> op, image_path |-> p, image_data |-> d, image_url |-> u, config |-> c]

NoReq == MkReq("none", "", "", "", NoCfg)

\* GET /health, GET /model_info, GET and POST of another path, POST /predict with a
\* body that is not JSON, and POST /predict with every combination of sources; the
\* silent remote alone and behind a path that fails
HttpReqs ==
    { MkReq(op, "", "", "", NoCfg) :
        op \in {"health", "info", "other_get", "other_post", "junk"} }
    \cup { MkReq("predict", p, d, u, c) : p \in SrcVals, d \in SrcVals, u \in SrcVals,
                                          c \in Cfgs }
    \cup { MkReq("predict", p, "", u, NoCfg) : p \in {"", "bad"}, u \in UrlVals \ SrcVals }

\* What the detector, the import of ultralytics and the results directory do during
\* one call: all outside the repository, so any outcome is possible.
Envs ==
    { [imp |-> FALSE, detOk |-> TRUE, raw |-> <<>>, save |-> TRUE],
      [imp |-> TRUE, detOk |-> FALSE, raw |-> <<>>, save |-> TRUE] }
    \cup { [imp |-> TRUE, detOk |-> TRUE, raw |-> r, save |-> s] :
             r \in RawSeqs, s \in BOOLEAN }

NoEnv == [imp |-> TRUE, detOk |-> TRUE, raw |-> <<>>, save |-> TRUE]

----------------------------------------------------------------------------
(* The handler object and its methods *)

\* YOLOInferenceHandler.__init__, before super().__init__ handles the request
HandlerInit ==
    [model |-> NoModel, model_path |-> "", classes |-> <<>>,
     confidence_threshold |-> DefaultConf, iou_threshold |-> DefaultIou,
     image_size |-> DefaultImgSize, max_detections |-> DefaultMaxDet]

\* The handler class is instantiated once per request (HTTPServer.finish_request);
\* the object of the previous request is not consulted.
HandlerNew(old) == HandlerInit

\* TempHandler.__init__ in load_model_thread
TempInit(path) == [HandlerInit EXCEPT !.model_path = path]

\* the fallback class list: the five names of the gRPC and FastAPI variants, which
\* are the first five of the 80 COCO names the HTTP variants fall back to
FallbackClasses == <<"person", "bicycle", "car", "motorcycle", "airplane">>

\* load_model of yolo_inference_ultralytics.py: the fields after a load that did
\* not raise; a failed warm-up inference is only logged
LoadedUltra(t) ==
    [t EXCEPT !.model = t.model_path,
              !.classes = IF ModelNames(t.model_path) # <<>>
                          THEN ModelNames(t.model_path) ELSE FallbackClasses]

\* load_model of yolo_inference.py: a placeholder, never raises
LoadedStub(t) == [t EXCEPT !.model = "yolo_model_loaded", !.classes = FallbackClasses]

\* create_handler: the loader's fields copied onto the object original_handler returned
Inject(hh, t) ==
    [hh EXCEPT !.model = t.model, !.model_path = t.model_path, !.classes = t.classes,
               !.confidence_threshold = t.confidence_threshold,
               !.iou_threshold = t.iou_threshold, !.image_size = t.image_size,
               !.max_detections = t.max_detections]

\* load_image falling back to the next populated source when one fails
LoadImageFallback(p, d, u) ==
    IF p = "ok" THEN [image |-> "img:path", reads |-> {"path"}]
    ELSE IF d = "ok"
         THEN [image |-> "img:data", reads |-> (IF p # "" THEN {"path"} ELSE {}) \cup {"data"}]
    ELSE IF u = "ok"
         THEN [image |-> "img:url",
               reads |-> (IF p # "" THEN {"path"} ELSE {})
                         \cup (IF d # "" THEN {"data"} ELSE {}) \cup {"url"}]
    ELSE [image |-> NoImage,
          reads |-> (IF p # "" THEN {"path"} ELSE {}) \cup (IF d # "" THEN {"data"} ELSE {})
                    \cup (IF u # "" THEN {"url"} ELSE {})]

\* load_image: the first populated field decides, every failure becomes None.
\* image: the image returned (named after its source); reads: the sources touched.
LoadImage(p, d, u) ==
    IF p # "" THEN [image |-> IF p = "ok" THEN "img:path" ELSE NoImage, reads |-> {"path"}]
    ELSE IF d # "" THEN [image |-> IF d = "ok" THEN "img:data" ELSE NoImage, reads |-> {"data"}]
    ELSE IF u # "" THEN [image |-> IF u = "ok" THEN "img:url" ELSE NoImage, reads |-> {"url"}]
    ELSE [image |-> NoImage, reads |-> {}]

\* run_yolo_inference, lines 186-192: request config written to the handler's fields
ApplyConfig(hh, c) ==
    [hh EXCEPT !.confidence_threshold = IF c.confidence # Absent THEN c.confidence ELSE @,
               !.iou_threshold = IF c.iou_threshold # Absent THEN c.iou_threshold ELSE @,
               !.image_size = IF c.image_size # Absent THEN c.image_size ELSE @]

\* result processing that truncates before it sorts
PostprocessTruncFirst(hh, raw) ==
    SortDesc(Take(FilterConf(MapDetections(hh.classes, raw), hh.confidence_threshold),
                  hh.max_detections))

\* run_yolo_inference, lines 232-278: filter, sort, truncate
PostprocessUltra(hh, raw) ==
    Take(SortDesc(FilterConf(MapDetections(hh.classes, raw), hh.confidence_threshold)),
         hh.max_detections)

\* the two placeholder detections of yolo_inference.py
StubDetections ==
    << [class_id |-> 0, class_name |-> "person", confidence |-> 95],
       [class_id |-> 1, class_name |-> "car", confidence |-> 87] >>

\* the placeholder returning its detections unfiltered
PostprocessStubNoFilter(hh) == Take(StubDetections, hh.max_detections)

\* yolo_inference.py, lines 221-227: filter, truncate (no sort)
PostprocessStub(hh) ==
    Take(FilterConf(StubDetections, hh.confidence_threshold), hh.max_detections)

\* The outcome of a method: the handler's fields afterwards, whether it raised and
\* with what text, and what it did on the way; files are the files it wrote to the
\* results directory (draw_boxes_and_save returns the path of the file it saved).
Outcome(hh, raised, msg, reads, detCalls, ctor, dets, art, raw) ==
    [h |-> hh, ran |-> FALSE, raised |-> raised, msg |-> msg, reads |-> reads,
     detCalls |-> detCalls, ctor |-> ctor, detections |-> dets, artifact |-> art,
     raw |-> raw, files |-> IF art = "file" THEN <<art>> ELSE <<>>]

\* run_yolo_inference constructing the detector on every call
RunUltraLazyAlways(hh, c, e, reads) ==
    LET h1 == ApplyConfig(hh, c)
        h2 == [h1 EXCEPT !.model = h1.model_path]
        dets == PostprocessUltra(h2, e.raw)
    IN  IF ~e.imp
        THEN Outcome(h1, TRUE, "Ultralytics YOLO not installed", reads, 0, FALSE,
                     <<>>, "", <<>>)
        ELSE IF h1.model_path \notin GoodPaths
        THEN Outcome(h1, TRUE, "cannot load weights", reads, 0, FALSE, <<>>, "", <<>>)
        ELSE IF ~e.detOk
        THEN Outcome(h2, TRUE, "detector error", reads, 1, TRUE, <<>>, "", <<>>)
        ELSE Outcome(h2, FALSE, "", reads, 1, TRUE, dets,
                     IF e.save THEN "file" ELSE NoArtifact, e.raw)

\* run_yolo_inference with a failed save failing the call
RunUltraSaveFatal(hh, c, e, reads) ==
    LET h1 == ApplyConfig(hh, c)
        lazy == h1.model = NoModel \/ h1.model = "yolo_model_loaded"
        h2 == IF lazy THEN [h1 EXCEPT !.model = h1.model_path] ELSE h1
        dets == PostprocessUltra(h2, e.raw)
    IN  IF ~e.imp
        THEN Outcome(h1, TRUE, "Ultralytics YOLO not installed", reads, 0, FALSE,
                     <<>>, "", <<>>)
        ELSE IF lazy /\ h1.model_path \notin GoodPaths
        THEN Outcome(h1, TRUE, "cannot load weights", reads, 0, FALSE, <<>>, "", <<>>)
        ELSE IF ~e.detOk
        THEN Outcome(h2, TRUE, "detector error", reads, 1, lazy, <<>>, "", <<>>)
        ELSE IF ~e.save
        THEN Outcome(h2, TRUE, "cannot save result", reads, 1, lazy, <<>>, "", <<>>)
        ELSE Outcome(h2, FALSE, "", reads, 1, lazy, dets, "file", e.raw)

\* run_yolo_inference saving the image before the detector has run: the file is
\* there when the detector fails
RunUltraSaveFirst(hh, c, e, reads) ==
    LET h1 == ApplyConfig(hh, c)
        lazy == h1.model = NoModel \/ h1.model = "yolo_model_loaded"
        h2 == IF lazy THEN [h1 EXCEPT !.model = h1.model_path] ELSE h1
        dets == PostprocessUltra(h2, e.raw)
        wrote == IF e.save THEN <<"file">> ELSE <<>>
    IN  IF ~e.imp
        THEN Outcome(h1, TRUE, "Ultralytics YOLO not installed", reads, 0, FALSE,
                     <<>>, "", <<>>)
        ELSE IF lazy /\ h1.model_path \notin GoodPaths
        THEN Outcome(h1, TRUE, "cannot load weights", reads, 0, FALSE, <<>>, "", <<>>)
        ELSE IF ~e.detOk
        THEN [Outcome(h2, TRUE, "detector error", reads, 1, lazy, <<>>, "", <<>>)
                EXCEPT !.files = wrote]
        ELSE Outcome(h2, FALSE, "", reads, 1, lazy, dets,
                     IF e.save THEN "file" ELSE NoArtifact, e.raw)

\* run_yolo_inference calling the detector a second time when the first call raises
RunUltraRetry(hh, c, e, reads) ==
    LET h1 == ApplyConfig(hh, c)
        lazy == h1.model = NoModel \/ h1.model = "yolo_model_loaded"
        h2 == IF lazy THEN [h1 EXCEPT !.model = h1.model_path] ELSE h1
        dets == PostprocessUltra(h2, e.raw)
    IN  IF ~e.imp
        THEN Outcome(h1, TRUE, "Ultralytics YOLO not installed", reads, 0, FALSE,
                     <<>>, "", <<>>)
        ELSE IF lazy /\ h1.model_path \notin GoodPaths
        THEN Outcome(h1, TRUE, "cannot load weights", reads, 0, FALSE, <<>>, "", <<>>)
        ELSE Outcome(h2, FALSE, "", reads, IF e.detOk THEN 1 ELSE 2, lazy, dets,
                     IF e.save THEN "file" ELSE NoArtifact, e.raw)

\* run_yolo_inference of yolo_inference_ultralytics.py; draw_boxes_and_save catches
\* every exception and returns None
RunUltra(hh, c, e, reads) ==
    LET h1 == ApplyConfig(hh, c)
        lazy == h1.model = NoModel \/ h1.model = "yolo_model_loaded"
        h2 == IF lazy THEN [h1 EXCEPT !.model = h1.model_path] ELSE h1
        dets == PostprocessUltra(h2, e.raw)
    IN  IF ~e.imp
        THEN Outcome(h1, TRUE, "Ultralytics YOLO not installed", reads, 0, FALSE,
                     <<>>, "", <<>>)
        ELSE IF lazy /\ h1.model_path \notin GoodPaths
        THEN Outcome(h1, TRUE, "cannot load weights", reads, 0, FALSE, <<>>, "", <<>>)
        ELSE IF ~e.detOk
        THEN Outcome(h2, TRUE, "detector error", reads, 1, lazy, <<>>, "", <<>>)
        ELSE Outcome(h2, FALSE, "", reads, 1, lazy, dets,
                     IF e.save THEN "file" ELSE NoArtifact, e.raw)

\* run_yolo_inference of yolo_inference.py (no detector, no artifact)
RunStub(hh, c, reads) ==
    LET h1 == ApplyConfig(hh, c)
    IN  Outcome(h1, FALSE, "", reads, 0, FALSE, PostprocessStub(h1), "", <<>>)

\* perform_yolo_inference without the gate on self.model
PerformNoGate(fl, hh, rq, e) ==
    LET li == LoadImage(rq.image_path, rq.image_data, rq.image_url)
    IN  IF li.image = NoImage
        THEN Outcome(hh, TRUE, "Failed to load image", li.reads, 0, FALSE, <<>>, "", <<>>)
        ELSE IF fl = "stub" THEN [RunStub(hh, rq.config, li.reads) EXCEPT !.ran = TRUE]
        ELSE [RunUltra(hh, rq.config, e, li.reads) EXCEPT !.ran = TRUE]

\* perform_yolo_inference loading the image before it looks at self.model
PerformLoadFirst(fl, hh, rq, e) ==
    LET li == LoadImage(rq.image_path, rq.image_data, rq.image_url)
    IN  IF li.image = NoImage
        THEN Outcome(hh, TRUE, "Failed to load image", li.reads, 0, FALSE, <<>>, "", <<>>)
        ELSE IF hh.model = NoModel
        THEN Outcome(hh, TRUE, "YOLO model not loaded", li.reads, 0, FALSE, <<>>, "", <<>>)
        ELSE IF fl = "stub" THEN [RunStub(hh, rq.config, li.reads) EXCEPT !.ran = TRUE]
        ELSE [RunUltra(hh, rq.config, e, li.reads) EXCEPT !.ran = TRUE]

\* perform_yolo_inference
PerformYoloInference(fl, hh, rq, e) ==
    LET li == LoadImage(rq.image_path, rq.image_data, rq.image_url)
    IN  IF hh.model = NoModel
        THEN Outcome(hh, TRUE, "YOLO model not loaded", {}, 0, FALSE, <<>>, "", <<>>)
        ELSE IF li.image = NoImage
        THEN Outcome(hh, TRUE, "Failed to load image", li.reads, 0, FALSE, <<>>, "", <<>>)
        ELSE IF fl = "stub" THEN [RunStub(hh, rq.config, li.reads) EXCEPT !.ran = TRUE]
        ELSE [RunUltra(hh, rq.config, e, li.reads) EXCEPT !.ran = TRUE]

----------------------------------------------------------------------------
(* Responses *)

NoResp ==
    [statuses |-> <<>>, keys |-> {}, success |-> FALSE, message |-> "", error |-> "",
     model_loaded |-> FALSE, model_path |-> "", classes_count |-> 0,
     detections |-> <<>>, artifact |-> "",
     conf |-> 0, iou |-> 0, imgsz |-> 0, maxdet |-> 0]

\* env: what the world did during the call
NoCall == [ran |-> FALSE, raised |-> FALSE, reads |-> {}, detCalls |-> 0,
           ctor |-> FALSE, raw |-> <<>>, image |-> NoImage, env |-> NoEnv,
           files |-> <<>>]

\* do_GET, /health
HealthResp(hh) ==
    [NoResp EXCEPT !.statuses = <<200>>,
                   !.keys = {"status", "model_loaded", "model_type", "timestamp"},
                   !.model_loaded = (hh.model # NoModel)]

\* do_GET, /model_info
InfoResp(hh) ==
    [NoResp EXCEPT !.statuses = <<200>>,
                   !.keys = {"model_path", "model_type", "classes", "confidence_threshold",
                             "iou_threshold", "image_size", "max_detections"},
                   !.model_path = hh.model_path,
                   !.classes_count = Len(hh.classes),
                   !.conf = hh.confidence_threshold, !.iou = hh.iou_threshold,
                   !.imgsz = hh.image_size, !.maxdet = hh.max_detections]

\* do_GET and do_POST, any other path
NotFoundResp == [NoResp EXCEPT !.statuses = <<404>>]

\* do_POST, the except branch: {"error": str(e), "status": "error"}
ErrorResp(msg) ==
    [NoResp EXCEPT !.statuses = <<500>>, !.keys = {"error", "status"}, !.error = msg]

\* perform_yolo_inference reporting the configured defaults in model_info
PredictRespDefaults(out) ==
    [NoResp EXCEPT !.statuses = <<200>>,
                   !.keys = {"detections", "image_info", "processing_time",
                             "result_image_path", "model_info", "timestamp"},
                   !.detections = out.detections, !.artifact = out.artifact,
                   !.conf = DefaultConf, !.iou = DefaultIou]

\* do_POST, the response perform_yolo_inference assembled
PredictResp(out) ==
    [NoResp EXCEPT !.statuses = <<200>>,
                   !.keys = {"detections", "image_info", "processing_time",
                             "result_image_path", "model_info", "timestamp"},
                   !.detections = out.detections, !.artifact = out.artifact,
                   !.conf = out.h.confidence_threshold, !.iou = out.h.iou_threshold]

\* do_GET / do_POST on handler hh: the handler afterwards, the response, the call
Handled(hh, r, c) == [h |-> hh, resp |-> r, call |-> c]

CallOf(out, li) ==
    [ran |-> out.ran, raised |-> out.raised, reads |-> out.reads,
     detCalls |-> out.detCalls, ctor |-> out.ctor, raw |-> out.raw,
     image |-> IF out.reads = {} THEN NoImage ELSE li.image, env |-> NoEnv,
     files |-> out.files]

HandleRequest(fl, hh, rq, e) ==
    LET out == PerformYoloInference(fl, hh, rq, e)
        li  == LoadImage(rq.image_path, rq.image_data, rq.image_url)
    IN  CASE rq.op = "health" -> Handled(hh, HealthResp(hh), NoCall)
          [] rq.op = "info"   -> Handled(hh, InfoResp(hh), NoCall)
          [] rq.op = "junk"   -> Handled(hh, ErrorResp("invalid JSON"), NoCall)
          [] rq.op = "predict" ->
                IF out.raised
                THEN Handled(out.h, ErrorResp(out.msg), CallOf(out, li))
                ELSE Handled(out.h, PredictResp(out), CallOf(out, li))
          [] OTHER -> Handled(hh, NotFoundResp, NoCall)

----------------------------------------------------------------------------
(* The HTTP server: load_model_thread and serve_forever *)

IsHttp == variant \in {"http", "handler"}

\* handler.load_model() in load_model_thread; an exception ends the thread. warm:
\* whether the test inference of load_model (lines 440-447) succeeds; its exception
\* is caught and logged as a warning.
LoaderLoad ==
    /\ IsHttp /\ lpc = "load"
    /\ \E imp \in BOOLEAN, warm \in BOOLEAN :
         IF flavour = "stub"
         THEN tmp' = LoadedStub(tmp) /\ lpc' = "patch" /\ hist' = hist
         ELSE IF imp /\ tmp.model_path \in GoodPaths
              THEN /\ tmp' = LoadedUltra(tmp) /\ lpc' = "patch"
                   /\ hist' = [hist EXCEPT !.warmFailed = ~warm]
              ELSE tmp' = tmp /\ lpc' = "failed" /\ hist' = hist
    /\ UNCHANGED <<variant, flavour, factory, spc, via, req, h, resp, call>>
    /\ UNCHANGED <<regVars, grpcVars, fpc, storeVars, ann>>

\* server.RequestHandlerClass = create_handler
LoaderPatch ==
    /\ IsHttp /\ lpc = "patch"
    /\ factory' = "patched" /\ lpc' = "done"
    /\ UNCHANGED <<variant, flavour, tmp, spc, via, req, h, resp, call, hist>>
    /\ UNCHANGED <<regVars, grpcVars, fpc, storeVars, ann>>

\* finish_request: self.RequestHandlerClass(request, client_address, self).
\* YOLOInferenceHandler.__init__ sets the fields; the request is handled inside
\* super().__init__ (BaseRequestHandler.__init__ calls handle()), so in the running
\* server create_handler's assignments come after the response (Finish). In variant
\* "handler" the methods are applied to the object as create_handler returns it.
Accept(rq) ==
    /\ IsHttp /\ spc = "idle"
    /\ via' = factory
    /\ req' = rq
    /\ h' = IF variant = "handler" /\ factory = "patched"
            THEN Inject(HandlerNew(h), tmp) ELSE HandlerNew(h)
    /\ spc' = "handle"
    /\ UNCHANGED <<variant, flavour, lpc, tmp, factory, resp, call, hist>>
    /\ UNCHANGED <<regVars, grpcVars, fpc, storeVars, ann>>

\* The outcomes of the world that this request can meet: only a call that reaches
\* the detector of the ultralytics flavour meets any. An image given by its path
\* alone meets every outcome, an image from another source one outcome of each kind
\* (what the detector emits does not depend on where the image came from).
EnvsOf(fl, hh, rq) ==
    IF /\ rq.op = "predict" /\ fl = "ultra" /\ hh.model # NoModel
       /\ LoadImage(rq.image_path, rq.image_data, rq.image_url).image # NoImage
    THEN IF rq.image_data = "" /\ rq.image_url = ""
         THEN Envs ELSE {e \in Envs : e.raw = <<>>}
    ELSE {NoEnv}

\* load_image, requests.get(image_url): called without a timeout, it returns when
\* the remote answers or the connection fails, and a silent remote does neither
FetchBlocks(hh, rq) ==
    /\ rq.op = "predict" /\ hh.model # NoModel
    /\ rq.image_path = "" /\ rq.image_data = "" /\ rq.image_url = "silent"

\* do_GET / do_POST
Handle(e) ==
    /\ IsHttp /\ spc = "handle"
    /\ ~FetchBlocks(h, req)
    /\ LET hd == HandleRequest(flavour, h, req, e)
       IN  h' = hd.h /\ resp' = hd.resp /\ call' = [hd.call EXCEPT !.env = e]
    /\ spc' = "sent"
    /\ UNCHANGED <<variant, flavour, lpc, tmp, factory, via, req, hist>>
    /\ UNCHANGED <<regVars, grpcVars, fpc, storeVars, ann>>

\* do_POST, lines 85-99: the 200 status line and the headers are out when
\* self.wfile.write of the body raises (the client has closed the connection); the
\* write stands inside the try, so the except branch sends a 500 status line, headers
\* and an error body for the same request
WriteFails ==
    /\ IsHttp /\ spc = "sent" /\ req.op = "predict" /\ resp.statuses = <<200>>
    /\ resp' = [ErrorResp("write failed") EXCEPT !.statuses = <<200, 500>>]
    /\ spc' = "resent"
    /\ UNCHANGED <<variant, flavour, lpc, tmp, factory, via, req, h, call, hist>>
    /\ UNCHANGED <<regVars, grpcVars, fpc, storeVars, ann>>

\* the request's handler being the loader's object: what a request writes stays on it
FinishAliased ==
    /\ IsHttp /\ spc \in {"sent", "resent"}
    /\ h' = h
    /\ tmp' = IF via = "patched"
              THEN [tmp EXCEPT !.confidence_threshold = h.confidence_threshold,
                               !.iou_threshold = h.iou_threshold,
                               !.image_size = h.image_size]
              ELSE tmp
    /\ hist' = [hist EXCEPT !.ovr = @ \/ (call.ran /\ HasOverride(req.config)),
                             !.failed = @ \/ (req.op \in {"predict", "junk"} /\ resp.statuses # <<200>>)]
    /\ spc' = "idle" /\ req' = NoReq /\ resp' = NoResp /\ call' = NoCall
    /\ UNCHANGED <<variant, flavour, lpc, factory, via>>
    /\ UNCHANGED <<regVars, grpcVars, fpc, storeVars, ann>>

\* a failed request taking the loaded model with it: the loader's object loses its
\* model when the response is an error
FinishDropsModel ==
    /\ IsHttp /\ spc \in {"sent", "resent"}
    /\ h' = IF variant = "http" /\ via = "patched" THEN Inject(h, tmp) ELSE h
    /\ tmp' = IF req.op \in {"predict", "junk"} /\ resp.statuses # <<200>>
              THEN [tmp EXCEPT !.model = NoModel] ELSE tmp
    /\ hist' = [hist EXCEPT !.ovr = @ \/ (call.ran /\ HasOverride(req.config)),
                             !.failed = @ \/ (req.op \in {"predict", "junk"} /\ resp.statuses # <<200>>)]
    /\ spc' = "idle" /\ req' = NoReq /\ resp' = NoResp /\ call' = NoCall
    /\ UNCHANGED <<variant, flavour, lpc, factory, via>>
    /\ UNCHANGED <<regVars, grpcVars, fpc, storeVars, ann>>

\* the constructor returns: create_handler copies the loader's fields, the object is dropped
Finish ==
    /\ IsHttp /\ spc \in {"sent", "resent"}
    /\ h' = IF variant = "http" /\ via = "patched" THEN Inject(h, tmp) ELSE h
    /\ hist' = [hist EXCEPT !.ovr = @ \/ (call.ran /\ HasOverride(req.config)),
                             !.failed = @ \/ (req.op \in {"predict", "junk"} /\ resp.statuses # <<200>>)]
    /\ spc' = "idle" /\ req' = NoReq /\ resp' = NoResp /\ call' = NoCall
    /\ UNCHANGED <<variant, flavour, lpc, tmp, factory, via>>
    /\ UNCHANGED <<regVars, grpcVars, fpc, storeVars, ann>>

----------------------------------------------------------------------------
(* The gRPC servicer: one YOLOInferenceService shared by the pool's workers *)

Workers == {"w1", "w2"}

\* the detector's outputs tried against the concurrent servicer: nothing, a weak
\* detection before a strong one, two detections of table classes
GrpcRaws ==
    { <<>>,
      <<[cls |-> 3, conf |-> 40], [cls |-> 5, conf |-> 95]>>,
      <<[cls |-> 3, conf |-> 95], [cls |-> 3, conf |-> 95]>> }

\* request.confidence of the gRPC requests tried
GrpcConf == 50

NoLocals ==
    [op |-> "none", image_data |-> "", conf |-> 0, path |-> "", gate |-> NoModel,
     used |-> NoModel, raw |-> <<>>, i |-> 0, n |-> 0, dets |-> <<>>, tables |-> {},
     detCalls |-> 0, saved |-> ""]

GrpcKeys == {"success", "message", "detections", "result_image_path", "processing_time"}

\* yolo_pb2.PredictResponse / LoadModelResponse: unset fields take proto3 defaults
GReply(success, message, dets, art) ==
    [NoResp EXCEPT !.keys = GrpcKeys, !.success = success, !.message = message,
                   !.detections = dets, !.artifact = art]

\* the class table a load of weights p installs
TableOf(p) == IF ModelNames(p) # <<>> THEN ModelNames(p) ELSE FallbackClasses

\* a pool worker picks up a Predict call
GPredictCall(w, d) ==
    /\ variant = "grpc" /\ wpc[w] = "idle"
    /\ wl' = [wl EXCEPT ![w] = [NoLocals EXCEPT !.op = "predict", !.image_data = d,
                                                !.conf = GrpcConf]]
    /\ wpc' = [wpc EXCEPT ![w] = "gate"]
    /\ UNCHANGED <<variant, flavour, httpVars, regVars, wresp, fpc, storeVars, ann>>

GDone(w, r) ==
    /\ wresp' = [wresp EXCEPT ![w] = r]
    /\ wpc' = [wpc EXCEPT ![w] = "done"]

\* Predict, lines 56-69: the gate on self.model, then the image
GGate(w) ==
    /\ variant = "grpc" /\ wpc[w] = "gate"
    /\ wl' = [wl EXCEPT ![w].gate = model]
    /\ IF model = NoModel
       THEN GDone(w, GReply(FALSE, "Model not loaded", <<>>, ""))
       ELSE IF wl[w].image_data = ""
       THEN GDone(w, GReply(FALSE, "No image data provided", <<>>, ""))
       ELSE IF wl[w].image_data = "bad"
       THEN GDone(w, GReply(FALSE, "Inference failed: cannot identify image", <<>>, ""))
       ELSE wpc' = [wpc EXCEPT ![w] = "detect"] /\ wresp' = wresp
    /\ UNCHANGED <<variant, flavour, httpVars, regVars, fpc, storeVars, ann>>

\* Predict, line 72: self.model is read again and called
GDetect(w, e) ==
    /\ variant = "grpc" /\ wpc[w] = "detect"
    /\ IF ~e.detOk
       THEN /\ wl' = [wl EXCEPT ![w].used = model, ![w].detCalls = 1]
            /\ GDone(w, GReply(FALSE, "Inference failed: detector error", <<>>, ""))
       ELSE /\ wl' = [wl EXCEPT ![w].used = model, ![w].detCalls = 1,
                                ![w].raw = e.raw, ![w].i = 1]
            /\ wpc' = [wpc EXCEPT ![w] = IF e.raw = <<>> THEN "save" ELSE "len"]
            /\ wresp' = wresp
    /\ UNCHANGED <<variant, flavour, httpVars, regVars, fpc, storeVars, ann>>

\* Predict, line 86: class_id < len(self.classes)
GLen(w) ==
    /\ variant = "grpc" /\ wpc[w] = "len"
    /\ wl' = [wl EXCEPT ![w].n = Len(classes), ![w].tables = @ \cup {classes}]
    /\ wpc' = [wpc EXCEPT ![w] = "name"]
    /\ UNCHANGED <<variant, flavour, httpVars, regVars, wresp, fpc, storeVars, ann>>

\* Predict, lines 84-93: self.classes[class_id] (read again) or class_<id>; append
GName(w) ==
    /\ variant = "grpc" /\ wpc[w] = "name"
    /\ LET l  == wl[w]
           d  == l.raw[l.i]
           nm == IF d.cls < l.n THEN classes[d.cls + 1] ELSE "class_" \o ToString(d.cls)
           det == [class_id |-> d.cls, class_name |-> nm, confidence |-> d.conf]
       IN  IF d.cls < l.n /\ d.cls >= Len(classes)
           THEN /\ wl' = [wl EXCEPT ![w].tables = @ \cup {classes}]
                /\ GDone(w, GReply(FALSE, "Inference failed: list index out of range",
                                   <<>>, ""))
           ELSE /\ wl' = [wl EXCEPT ![w].dets = Append(@, det), ![w].i = @ + 1,
                                    ![w].tables = IF d.cls < l.n THEN @ \cup {classes}
                                                  ELSE @]
                /\ wpc' = [wpc EXCEPT ![w] = IF l.i = Len(l.raw) THEN "save" ELSE "len"]
                /\ wresp' = wresp
    /\ UNCHANGED <<variant, flavour, httpVars, regVars, fpc, storeVars, ann>>

\* the detections kept in a list of the servicer instead of a local of the call: the
\* reply carries the list of whichever call is building one
GSaveShared(w, ok) ==
    /\ variant = "grpc" /\ wpc[w] = "save"
    /\ LET others == {v \in Workers : v # w /\ wl[v].dets # <<>>}
           dets == IF others = {} THEN wl[w].dets
                   ELSE wl[CHOOSE v \in others : TRUE].dets
       IN  GDone(w, GReply(TRUE, "", dets, IF ok THEN "file" ELSE ""))
    /\ wl' = [wl EXCEPT ![w].saved = IF ok THEN "ok" ELSE "failed"]
    /\ UNCHANGED <<variant, flavour, httpVars, regVars, fpc, storeVars, ann>>

\* Predict, lines 96-103: _draw_and_save_result ("" when it fails), the reply
GSave(w, ok) ==
    /\ variant = "grpc" /\ wpc[w] = "save"
    /\ GDone(w, GReply(TRUE, "", wl[w].dets, IF ok THEN "file" ELSE ""))
    /\ wl' = [wl EXCEPT ![w].saved = IF ok THEN "ok" ELSE "failed"]
    /\ UNCHANGED <<variant, flavour, httpVars, regVars, fpc, storeVars, ann>>

\* a pool worker picks up a LoadModel call
GLoadCall(w, p) ==
    /\ variant = "grpc" /\ wpc[w] = "idle"
    /\ wl' = [wl EXCEPT ![w] = [NoLocals EXCEPT !.op = "load", !.path = p]]
    /\ wpc' = [wpc EXCEPT ![w] = "l_path"]
    /\ UNCHANGED <<variant, flavour, httpVars, regVars, wresp, fpc, storeVars, ann>>

\* LoadModel, line 34
GLoadPath(w) ==
    /\ variant = "grpc" /\ wpc[w] = "l_path"
    /\ model_path' = wl[w].path
    /\ wpc' = [wpc EXCEPT ![w] = "l_model"]
    /\ UNCHANGED <<variant, flavour, httpVars, model, classes, wl, wresp, fpc, storeVars, ann>>

\* LoadModel, line 35: self.model = YOLO(self.model_path), which reads the shared path
GLoadModel(w) ==
    /\ variant = "grpc" /\ wpc[w] = "l_model"
    /\ IF model_path \in GoodPaths
       THEN /\ model' = model_path
            /\ wpc' = [wpc EXCEPT ![w] = "l_names"] /\ wresp' = wresp
       ELSE /\ model' = model
            /\ GDone(w, GReply(FALSE, "Failed to load model", <<>>, ""))
    /\ UNCHANGED <<variant, flavour, httpVars, model_path, classes, wl, fpc, storeVars, ann>>

\* LoadModel, lines 38-46: the names of self.model (read again) or the fallback list
GLoadNames(w) ==
    /\ variant = "grpc" /\ wpc[w] = "l_names"
    /\ classes' = TableOf(model)
    /\ GDone(w, GReply(TRUE, "Model loaded successfully", <<>>, ""))
    /\ UNCHANGED <<variant, flavour, httpVars, model, model_path, wl, fpc, storeVars, ann>>

\* the reply is sent, the worker is free again
GReturn(w) ==
    /\ variant = "grpc" /\ wpc[w] = "done"
    /\ wpc' = [wpc EXCEPT ![w] = "idle"]
    /\ wl' = [wl EXCEPT ![w] = NoLocals]
    /\ wresp' = [wresp EXCEPT ![w] = NoResp]
    /\ UNCHANGED <<variant, flavour, httpVars, regVars, fpc, storeVars, ann>>

GrpcEnvs ==
    {[imp |-> TRUE, detOk |-> FALSE, raw |-> <<>>, save |-> TRUE]}
    \cup {[imp |-> TRUE, detOk |-> TRUE, raw |-> r, save |-> TRUE] : r \in GrpcRaws}

----------------------------------------------------------------------------
(* The FastAPI service: module globals, handlers run one at a time on the event loop *)

FastKeys == {"success", "detections", "result_image_path", "processing_time", "message"}

\* InferenceResponse
FReply(success, message, dets, art) ==
    [NoResp EXCEPT !.statuses = <<200>>, !.keys = FastKeys, !.success = success,
                   !.message = message, !.detections = dets, !.artifact = art]

\* InferenceRequest: the field defaults of the pydantic model
FastConf(c)   == IF c.confidence = Absent THEN DefaultConf ELSE c.confidence
FastMaxDet(c) == IF c.max_detections = Absent THEN DefaultMaxDet ELSE c.max_detections

FastReqs ==
    { MkReq("health", "", "", "", NoCfg) }
    \cup { MkReq("predict", "", d, "", c) : d \in SrcVals, c \in Cfgs }

\* str(e) of HTTPException(status_code=500, detail="Model not loaded"): the text is
\* the library's; releases of Starlette that define __str__ give the first, the
\* others (the exception is built from keyword arguments) the empty string
GateTexts == {"500: Model not loaded", ""}

GateTextsOf(m, rq) == IF rq.op = "predict" /\ m = NoModel THEN GateTexts ELSE {""}

\* predict: every exception, the HTTPException of the gate included, is caught and
\* becomes InferenceResponse(success=False, message=str(e)); t is str(e) at the gate
FastPredict(m, cls, rq, e, t) ==
    LET fail(msg, n) ==
            [resp |-> FReply(FALSE, msg, <<>>, ""),
             call |-> [NoCall EXCEPT !.raised = TRUE, !.detCalls = n,
                                     !.reads = IF m = NoModel THEN {} ELSE {"data"}]]
    IN  IF m = NoModel THEN fail(t, 0)
        ELSE IF rq.image_data # "ok" THEN fail("cannot identify image", 0)
        ELSE IF ~e.detOk THEN fail("detector error", 1)
        ELSE [resp |-> FReply(TRUE, "", MapDetections(cls, e.raw),
                              IF e.save THEN "file" ELSE ""),
              call |-> [NoCall EXCEPT !.ran = TRUE, !.detCalls = 1, !.reads = {"data"},
                                      !.raw = e.raw, !.image = "img:data",
                                      !.files = IF e.save THEN <<"file">> ELSE <<>>]]

\* health_check
FastHealth(m, mp, cls) ==
    [NoResp EXCEPT !.statuses = <<200>>,
                   !.keys = {"status", "model_loaded", "model_path", "classes_count"},
                   !.model_loaded = (m # NoModel), !.model_path = mp,
                   !.classes_count = Len(cls)]

\* startup_event: the path from YOLO_MODEL_PATH, YOLO(path), the class names, one
\* warm-up inference; any exception is logged and raised again, and the application
\* does not start
FStartup(p, warm) ==
    /\ variant = "fastapi" /\ fpc = "boot"
    /\ model_path' = p
    /\ IF p \in GoodPaths
       THEN model' = p /\ classes' = TableOf(p)
            /\ fpc' = IF warm THEN "serving" ELSE "dead"
       ELSE model' = model /\ classes' = classes /\ fpc' = "dead"
    /\ UNCHANGED <<variant, flavour, httpVars, grpcVars, storeVars, ann>>

FEnvsOf(m, rq) ==
    IF rq.op = "predict" /\ m # NoModel /\ rq.image_data = "ok"
    THEN {e \in Envs : e.imp} ELSE {NoEnv}

\* one request, handled to its response without interleaving
FRequest(rq, e, t) ==
    /\ variant = "fastapi" /\ fpc = "serving" /\ spc = "idle"
    /\ req' = rq
    /\ IF rq.op = "health"
       THEN resp' = FastHealth(model, model_path, classes) /\ call' = NoCall
       ELSE LET out == FastPredict(model, classes, rq, e, t)
            IN  resp' = out.resp /\ call' = [out.call EXCEPT !.env = e]
    /\ spc' = "sent"
    /\ UNCHANGED <<variant, flavour, lpc, tmp, factory, via, h, hist>>
    /\ UNCHANGED <<regVars, grpcVars, fpc, storeVars, ann>>

FReturn ==
    /\ variant = "fastapi" /\ spc = "sent"
    /\ hist' = [hist EXCEPT !.ovr = @ \/ (call.ran /\ req.config # NoCfg),
                             !.failed = @ \/ (req.op = "predict" /\ ~resp.success)]
    /\ spc' = "idle" /\ req' = NoReq /\ resp' = NoResp /\ call' = NoCall
    /\ UNCHANGED <<variant, flavour, lpc, tmp, factory, via, h>>
    /\ UNCHANGED <<regVars, grpcVars, fpc, storeVars, ann>>

----------------------------------------------------------------------------
(* Result processing of the HTTP handlers as a function of the handler's fields *)

Postprocess(fl, hh, raw) ==
    IF fl = "stub" THEN PostprocessStub(hh) ELSE PostprocessUltra(hh, raw)

\* thresholds a handler can hold (the default and the requests' overrides) and caps
\* (the default 100 and, to see truncation happen, 1..MaxCap)
PostHandlers ==
    { [HandlerInit EXCEPT !.model = "a", !.model_path = "a", !.classes = TableOf("a"),
                          !.confidence_threshold = t, !.max_detections = c] :
        t \in {30, DefaultConf, 90}, c \in (1..MaxCap) \cup {DefaultMaxDet} }

PostApply ==
    /\ variant = "post" /\ spc = "idle"
    /\ resp' = [NoResp EXCEPT !.detections = Postprocess(flavour, h, call.raw)]
    /\ spc' = "sent"
    /\ UNCHANGED <<variant, flavour, lpc, tmp, factory, via, req, h, call, hist>>
    /\ UNCHANGED <<regVars, grpcVars, fpc, storeVars, ann>>

----------------------------------------------------------------------------
(* The results directory: the file name draw_boxes_and_save, draw_and_save_result *)
(* and _draw_and_save_result write to                                            *)

MaxSaves == 3           \* saves followed
MaxNow   == 2           \* seconds the clock runs to

ShortLen == 8           \* str(uuid.uuid4())[:8]

\* str(uuid.uuid4()) as its hex digits, cut after the ninth: four values, the first
\* two alike in their first eight digits
Uuids ==
    { <<"1", "f", "0", "c", "4", "a", "7", "e", "9">>,
      <<"1", "f", "0", "c", "4", "a", "7", "e", "2">>,
      <<"1", "f", "0", "c", "4", "a", "7", "d", "9">>,
      <<"8", "b", "3", "3", "0", "5", "6", "a", "9">> }

\* unique_id = str(uuid.uuid4())[:8]
ShortId(u) == SubSeq(u, 1, ShortLen)

\* filename = f"yolo_result_{timestamp}_{unique_id}.jpg"
Filename(t, u) ==
    [prefix |-> "yolo_result", timestamp |-> t, unique_id |-> ShortId(u), ext |-> "jpg"]

\* the files of /tmp/cnet/yolo_results
Files == {saves[i].name : i \in 1..Len(saves)}

\* pil_image.save(result_path, ...): the file holds what the last save under that
\* name wrote; an artifact is identified by the uuid of the save that drew it
Content(name) ==
    LET writers == {i \in 1..Len(saves) : saves[i].name = name}
    IN  saves[CHOOSE i \in writers : \A j \in writers : j <= i].uuid

\* get_result_image: the file of that name in /tmp/cnet/yolo_results, or 404
Retrieve(name) ==
    IF name \in Files THEN [status |-> 200, content |-> Content(name)]
    ELSE [status |-> 404, content |-> <<>>]

\* One call of the save routine that completes: the name from the clock and a fresh
\* uuid4 (no value is drawn twice), the image written under it; a file of that name
\* is replaced.
StoreSave(u) ==
    /\ variant = "store" /\ Len(saves) < MaxSaves
    /\ \A i \in 1..Len(saves) : saves[i].uuid # u
    /\ saves' = Append(saves, [t |-> now, uuid |-> u, name |-> Filename(now, u),
                               replaced |-> Filename(now, u) \in Files])
    /\ UNCHANGED <<variant, flavour, httpVars, regVars, grpcVars, fpc, now, ann>>

\* a second passes
StoreTick ==
    /\ variant = "store" /\ now < MaxNow
    /\ now' = now + 1
    /\ UNCHANGED <<variant, flavour, httpVars, regVars, grpcVars, fpc, saves, ann>>

----------------------------------------------------------------------------
(* Boxes and drawing: the detection loop's conversion of a box and the save       *)
(* routines' drawing of it (draw_boxes_and_save, draw_and_save_result,           *)
(* _draw_and_save_result)                                                        *)

MantBits == 3           \* significant bits of a coordinate (float32 has 24)

LabelMargin == 5        \* y1 - text_height - 5
LabelOffset == 20       \* y1 - 20

Services == {"http", "fastapi", "grpc"}

\* What the caller hands to the save routine: an array of height x width x 3, an
\* array of another shape, a PIL image
ImageKinds == {"array3", "array2", "pil"}

\* Pixel coordinates of the detector's boxes: even whole numbers that MantBits bits
\* hold exactly, so that the halves below are whole as well
Coords == {0, 2, 8, 16, 40}

\* boxes.xyxy[i]: corner form, x1 <= x2 and y1 <= y2
Boxes ==
    { [x1 |-> a, y1 |-> b, x2 |-> c, y2 |-> d] :
        a \in Coords, b \in Coords, c \in Coords, d \in Coords }
    \ { bx \in [x1 : Coords, y1 : Coords, x2 : Coords, y2 : Coords] :
          bx.x2 < bx.x1 \/ bx.y2 < bx.y1 }

\* text_height of draw.textbbox for the label in the font found
TextHeights == {14, 22}

Max(a, b) == IF a > b THEN a ELSE b

RECURSIVE BitLen(_)
BitLen(n) == IF n = 0 THEN 0 ELSE 1 + BitLen(n \div 2)

RECURSIVE Pow2(_)
Pow2(k) == IF k = 0 THEN 1 ELSE 2 * Pow2(k - 1)

\* The result of a float32 operation whose exact value is n >= 0: n rounded to
\* MantBits significant bits, to nearest, ties to the even mantissa
Rnd(n) ==
    IF BitLen(n) <= MantBits THEN n
    ELSE LET q == Pow2(BitLen(n) - MantBits)
             m == n \div q
             r == n % q
         IN  IF 2 * r < q THEN m * q
             ELSE IF 2 * r > q THEN (m + 1) * q
             ELSE IF m % 2 = 0 THEN m * q ELSE (m + 1) * q

\* the box in top-left form: x and y are the corner, not the centre
ToCenterTopLeft(b) ==
    [x |-> b.x1, y |-> b.y1,
     width |-> Rnd(b.x2 - b.x1), height |-> Rnd(b.y2 - b.y1)]

\* center_x = (x1 + x2) / 2, center_y = (y1 + y2) / 2, width = x2 - x1,
\* height = y2 - y1 on numpy.float32 values: the sum and the difference are rounded,
\* the halving is exact
ToCenter(b) ==
    [x |-> Rnd(b.x1 + b.x2) \div 2, y |-> Rnd(b.y1 + b.y2) \div 2,
     width |-> Rnd(b.x2 - b.x1), height |-> Rnd(b.y2 - b.y1)]

\* x1 = center_x - width / 2, ... on Python floats (binary64), which hold these
\* results exactly
ToCorners(c) ==
    [x1 |-> c.x - c.width \div 2, y1 |-> c.y - c.height \div 2,
     x2 |-> c.x + c.width \div 2, y2 |-> c.y + c.height \div 2]

\* the box as the detection carries it: centre form, or the corners (gRPC)
BoxOf(svc, b) == IF svc = "grpc" THEN b ELSE ToCenter(b)

\* the corners the save routine draws the rectangle at
CornersOf(svc, d) == IF svc = "grpc" THEN d ELSE ToCorners(d)

\* the vertical origin of the label text
LabelY(svc, y1, th) ==
    IF svc = "http" THEN Max(y1 - th - LabelMargin, 0) ELSE y1 - LabelOffset

\* Image.fromarray(array): the PIL image may use the array's memory
FromArray(buf, shares) == IF shares THEN buf ELSE "fromarray"

\* pil_image of the save routine, as the buffer that holds its pixels: "input" is the
\* caller's image; cv2.cvtColor returns a new array ("converted") and raises for an
\* array without three channels; image.copy() is a new image ("copy")
PilImage(svc, kind, shares) ==
    IF kind = "pil" THEN "copy"
    ELSE IF svc = "http"
    THEN FromArray(IF kind = "array3" THEN "converted" ELSE "input", shares)
    ELSE IF kind = "array3" THEN FromArray("converted", shares) ELSE "raise"

\* drawing on pil_image itself in every variant
DrawTargetNoCopy(svc, kind, shares) ==
    IF PilImage(svc, kind, shares) = "raise" THEN "none"
    ELSE PilImage(svc, kind, shares)

\* ImageDraw.Draw(...): the buffer drawn into; the HTTP variants draw on
\* draw_image = pil_image.copy(), the others on pil_image
DrawTarget(svc, kind, shares) ==
    IF PilImage(svc, kind, shares) = "raise" THEN "none"
    ELSE IF svc = "http" THEN "copy"
    ELSE PilImage(svc, kind, shares)

MaxRank == 11           \* positions of the detections list drawn: 0..MaxRank

\* colors of draw_boxes_and_save (ten) and of the FastAPI and gRPC routines (five)
Palette(svc) ==
    IF svc = "http"
    THEN <<"red", "green", "blue", "yellow", "magenta", "cyan", "orange", "purple",
           "pink", "darkgreen">>
    ELSE <<"red", "green", "blue", "yellow", "magenta">>

\* the color chosen by the class of the detection
ColorByClass(svc, i, c) == Palette(svc)[(c % Len(Palette(svc))) + 1]

\* color = colors[i % len(colors)], i the position in the list handed to the routine
ColorAt(svc, i, c) == Palette(svc)[(i % Len(Palette(svc))) + 1]

\* The positions and classes tried for a box: every one for one box in a
\* three-channel array, the first position for the others (the color does not
\* depend on the box)
RanksOf(kind, b) ==
    IF kind = "array3" /\ b = [x1 |-> 0, y1 |-> 0, x2 |-> 8, y2 |-> 8]
    THEN (0..MaxRank) \X ClassIds ELSE {<<0, 3>>}

NoBox == [x1 |-> 0, y1 |-> 0, x2 |-> 0, y2 |-> 0]

NoAnn ==
    [pc |-> "idle", svc |-> "", kind |-> "", box |-> NoBox, det |-> NoBox,
     corners |-> NoBox, th |-> 0, label_y |-> 0, target |-> "none",
     input |-> "orig", saved |-> FALSE, rank |-> 0, cls |-> 0, color |-> ""]

\* the detection loop on one box of the detector's result, of class c, which ends at
\* position i of the list handed to the save routine
AnnDetect(svc, kind, b, i, c) ==
    /\ variant = "annot" /\ ann.pc = "idle"
    /\ ann' = [NoAnn EXCEPT !.pc = "detected", !.svc = svc, !.kind = kind,
                            !.box = b, !.det = BoxOf(svc, b), !.rank = i, !.cls = c]
    /\ UNCHANGED <<variant, flavour, httpVars, regVars, grpcVars, fpc, now, saves>>

\* the save routine on the caller's image and that detection: the drawing, then the
\* write of the file, which succeeds or not; every exception ends the routine
AnnDraw(th, shares, ok) ==
    /\ variant = "annot" /\ ann.pc = "detected"
    /\ LET tg == DrawTarget(ann.svc, ann.kind, shares)
           cs == CornersOf(ann.svc, ann.det)
       IN  ann' = IF tg = "none" THEN [ann EXCEPT !.pc = "drawn"]
                  ELSE [ann EXCEPT !.pc = "drawn", !.corners = cs, !.th = th,
                                   !.label_y = LabelY(ann.svc, cs.y1, th),
                                   !.target = tg,
                                   !.input = IF tg = "input" THEN "drawn" ELSE "orig",
                                   !.color = ColorAt(ann.svc, ann.rank, ann.cls),
                                   !.saved = ok]
    /\ UNCHANGED <<variant, flavour, httpVars, regVars, grpcVars, fpc, now, saves>>

----------------------------------------------------------------------------
(* Specifications *)

InitHttp ==
    /\ variant \in {"http", "handler"}
    /\ flavour \in {"ultra", "stub"}
    /\ tmp \in {TempInit(p) : p \in Paths}
    /\ h = HandlerInit /\ call = NoCall

InitPost ==
    /\ variant = "post"
    /\ flavour \in {"ultra", "stub"}
    /\ tmp = TempInit("a")
    /\ h \in PostHandlers
    /\ call \in {[NoCall EXCEPT !.raw = r] : r \in RawSeqs}

InitOther ==
    /\ variant \in {"grpc", "fastapi"}
    /\ flavour = "ultra" /\ tmp = TempInit("a") /\ h = HandlerInit /\ call = NoCall

InitRest ==
    /\ lpc = "load" /\ factory = "class" /\ spc = "idle" /\ via = "class"
    /\ req = NoReq /\ resp = NoResp
    /\ hist = [ovr |-> FALSE, warmFailed |-> FALSE, failed |-> FALSE]
    /\ model = NoModel /\ model_path = NoModel /\ classes = <<>>
    /\ wpc = [w \in Workers |-> "idle"]
    /\ wl = [w \in Workers |-> NoLocals]
    /\ wresp = [w \in Workers |-> NoResp]
    /\ fpc = "boot"
    /\ now = 0 /\ saves = <<>> /\ ann = NoAnn

InitStore ==
    /\ variant = "store"
    /\ flavour = "ultra" /\ tmp = TempInit("a") /\ h = HandlerInit /\ call = NoCall

InitAnnot ==
    /\ variant = "annot"
    /\ flavour = "ultra" /\ tmp = TempInit("a") /\ h = HandlerInit /\ call = NoCall

Init == (InitHttp \/ InitPost \/ InitOther \/ InitStore \/ InitAnnot) /\ InitRest

NextHttp ==
    \/ LoaderLoad
    \/ LoaderPatch
    \/ \E rq \in HttpReqs : Accept(rq)
    \/ \E e \in EnvsOf(flavour, h, req) : Handle(e)
    \/ WriteFails
    \/ Finish
    \/ PostApply

NextGrpc ==
    \/ \E w \in Workers, d \in SrcVals : GPredictCall(w, d)
    \/ \E w \in Workers : GGate(w)
    \/ \E w \in Workers, e \in GrpcEnvs : GDetect(w, e)
    \/ \E w \in Workers : GLen(w)
    \/ \E w \in Workers : GName(w)
    \/ \E w \in Workers, ok \in BOOLEAN : GSave(w, ok)
    \/ \E w \in Workers, p \in Paths : GLoadCall(w, p)
    \/ \E w \in Workers : GLoadPath(w)
    \/ \E w \in Workers : GLoadModel(w)
    \/ \E w \in Workers : GLoadNames(w)
    \/ \E w \in Workers : GReturn(w)

NextFast ==
    \/ \E p \in Paths, warm \in BOOLEAN : FStartup(p, warm)
    \/ \E rq \in FastReqs :
          \E e \in FEnvsOf(model, rq), t \in GateTextsOf(model, rq) : FRequest(rq, e, t)
    \/ FReturn

NextStore ==
    \/ \E u \in Uuids : StoreSave(u)
    \/ StoreTick

NextAnnot ==
    \/ /\ variant = "annot" /\ ann.pc = "idle"
       /\ \E svc \in Services, kind \in ImageKinds, b \in Boxes :
             \E ic \in RanksOf(kind, b) : AnnDetect(svc, kind, b, ic[1], ic[2])
    \/ \E th \in TextHeights, shares \in BOOLEAN, ok \in BOOLEAN : AnnDraw(th, shares, ok)

Next == NextHttp \/ NextGrpc \/ NextFast \/ NextStore \/ NextAnnot

\* every variant
Spec == Init /\ [][Next]_vars

\* the HTTP server, its handler objects and their result processing
InitH == (InitHttp \/ InitPost) /\ InitRest
SpecHttp == InitH /\ [][NextHttp]_vars

\* the gRPC servicer
InitG == variant = "grpc" /\ InitOther /\ InitRest
SpecGrpc == InitG /\ [][NextGrpc]_vars

\* the FastAPI service
InitF == variant = "fastapi" /\ InitOther /\ InitRest
SpecFast == InitF /\ [][NextFast]_vars

\* the results directory
InitS == InitStore /\ InitRest
SpecStore == InitS /\ [][NextStore]_vars

\* one box from the detector's result to the drawn image
InitA == InitAnnot /\ InitRest
SpecAnnot == InitA /\ [][NextAnnot]_vars

\* the gRPC servicer after a LoadModel call has completed, serving Predict calls
\* while no LoadModel call is made
InitServing ==
    /\ variant = "grpc" /\ InitOther
    /\ lpc = "load" /\ factory = "class" /\ spc = "idle" /\ via = "class"
    /\ req = NoReq /\ resp = NoResp
    /\ hist = [ovr |-> FALSE, warmFailed |-> FALSE, failed |-> FALSE]
    /\ model \in GoodPaths /\ model_path = model /\ classes = TableOf(model)
    /\ wpc = [w \in Workers |-> "idle"]
    /\ wl = [w \in Workers |-> NoLocals]
    /\ wresp = [w \in Workers |-> NoResp]
    /\ fpc = "boot"
    /\ now = 0 /\ saves = <<>> /\ ann = NoAnn

NextServing ==
    \/ \E w \in Workers, d \in SrcVals : GPredictCall(w, d)
    \/ \E w \in Workers : GGate(w)
    \/ \E w \in Workers, e \in GrpcEnvs : GDetect(w, e)
    \/ \E w \in Workers : GLen(w)
    \/ \E w \in Workers : GName(w)
    \/ \E w \in Workers, ok \in BOOLEAN : GSave(w, ok)
    \/ \E w \in Workers : GReturn(w)

SpecServing == InitServing /\ [][NextServing]_vars

----------------------------------------------------------------------------
(* Claims *)

\* a Predict of the HTTP server or of the FastAPI service has been answered
HttpPredictSent == IsHttp /\ spc = "sent" /\ req.op = "predict"
FastPredictSent == variant = "fastapi" /\ spc = "sent" /\ req.op = "predict"
\* worker w of the gRPC servicer has built the reply of a Predict
GrpcPredictDone(w) == variant = "grpc" /\ wpc[w] = "done" /\ wl[w].op = "predict"

\* a reply that carries a success flag and, when it reports failure, a message
Structured(r) == "success" \in r.keys /\ (~r.success => r.message # "")

\* C1: Predict never raises to its caller; whatever fails, the caller receives a
\* structured result with a success flag and a populated message.
C1_PredictNeverRaises ==
    /\ HttpPredictSent => (~call.raised /\ Structured(resp))
    /\ FastPredictSent => Structured(resp)
    /\ \A w \in Workers : GrpcPredictDone(w) => Structured(wresp[w])

\* C2: in the HTTP server, a request handled after the loader thread has installed
\* the loaded model observes it: /health reports model_loaded true and /predict is
\* not answered with the model-not-loaded error.
C2_LoadedModelObserved ==
    (variant = "http" /\ spc = "sent" /\ via = "patched") =>
        /\ req.op = "health" => resp.model_loaded
        /\ req.op = "predict" => resp.error # "YOLO model not loaded"

\* C3: a Predict that finds no model fails with the model-not-loaded error and does
\* not invoke (or construct) the detector; a readiness query answered while no model
\* is held reports model_loaded false.
C3_NotLoadedGate ==
    /\ (HttpPredictSent /\ h.model = NoModel) =>
          /\ resp.statuses = <<500>> /\ resp.error = "YOLO model not loaded"
          /\ call.detCalls = 0 /\ ~call.ctor /\ resp.detections = <<>>
    /\ (IsHttp /\ spc = "sent" /\ req.op = "health" /\ h.model = NoModel) =>
          ~resp.model_loaded
    /\ (FastPredictSent /\ model = NoModel) =>
          /\ ~resp.success /\ resp.message \in GateTexts
          /\ call.detCalls = 0 /\ resp.detections = <<>>
    /\ \A w \in Workers :
          (GrpcPredictDone(w) /\ wl[w].gate = NoModel) =>
              /\ ~wresp[w].success /\ wresp[w].message = "Model not loaded"
              /\ wl[w].detCalls = 0 /\ wresp[w].detections = <<>>

C3_Witness ==
    \E w \in Workers :
        /\ GrpcPredictDone(w) /\ wl[w].gate = NoModel /\ wl[w].image_data = "ok"
        /\ wresp[w].message = "Model not loaded"

\* C4: a Predict that runs concurrently with Load uses a detector and a class table
\* installed by the same Load: the handle it passed the gate with is the one it
\* calls, and every class table it reads is the table of that detector.
C4_NoHalfInitializedModel ==
    \A w \in Workers :
        (variant = "grpc" /\ wl[w].op = "predict" /\ wl[w].used # NoModel) =>
            /\ wl[w].gate = wl[w].used
            /\ wl[w].tables \subseteq {TableOf(wl[w].used)}

\* the service defaults are what a handler reports
DefaultsReported(r) ==
    /\ r.conf = DefaultConf /\ r.iou = DefaultIou
    /\ r.imgsz = DefaultImgSize /\ r.maxdet = DefaultMaxDet

\* C5: per-request overrides apply to that call only: whatever earlier requests
\* supplied, /model_info reports the service defaults, every request starts from
\* them, and a Predict uses the default for each parameter it does not supply.
C5_OverridesAreLocal ==
    /\ (IsHttp /\ spc = "sent" /\ req.op = "info") => DefaultsReported(resp)
    /\ (IsHttp /\ spc = "handle") => DefaultsReported(InfoResp(h))
    /\ (HttpPredictSent /\ call.ran) =>
          /\ req.config.confidence = Absent => h.confidence_threshold = DefaultConf
          /\ req.config.iou_threshold = Absent => h.iou_threshold = DefaultIou
          /\ req.config.image_size = Absent => h.image_size = DefaultImgSize

\* a Predict has applied overrides, and a later /model_info is answered
C5_Witness ==
    /\ variant = "handler" /\ hist.ovr /\ spc = "sent" /\ req.op = "info"
    /\ resp.conf = DefaultConf

\* the confidence threshold of a request: its own, or the default
ReqConf(c) == IF c.confidence = Absent THEN DefaultConf ELSE c.confidence

AllAtLeast(dets, t) == \A i \in 1..Len(dets) : dets[i].confidence >= t

\* C6: every Detection returned for a request with confidence threshold t has
\* confidence >= t, whatever the detector emitted.
C6_ConfidenceFloor ==
    /\ HttpPredictSent => AllAtLeast(resp.detections, ReqConf(req.config))
    /\ FastPredictSent => AllAtLeast(resp.detections, ReqConf(req.config))
    /\ \A w \in Workers :
          GrpcPredictDone(w) => AllAtLeast(wresp[w].detections, wl[w].conf)

IsSortedDesc(dets) ==
    \A i \in 1..Len(dets), j \in 1..Len(dets) :
        i < j => dets[i].confidence >= dets[j].confidence

\* the class ids of the detections of confidence c, in order
IdsAt(dets, c) ==
    LET sel == SelectSeq(dets, LAMBDA d : d.confidence = c)
    IN  [i \in 1..Len(sel) |-> sel[i].class_id]

IsPrefix(a, b) == Len(a) <= Len(b) /\ a = SubSeq(b, 1, Len(a))

\* detections of equal confidence are in the order the detector emitted them
TiesInEmissionOrder(dets, raw) ==
    \A c \in ConfVals :
        IsPrefix(IdsAt(dets, c),
                 IdsAt([i \in 1..Len(raw) |->
                          [class_id |-> raw[i].cls, confidence |-> raw[i].conf]], c))

\* C7: returned detections are ordered by confidence descending, detections of equal
\* confidence in emission order.
C7_SortedStable ==
    /\ (HttpPredictSent /\ flavour = "ultra") =>
          IsSortedDesc(resp.detections) /\ TiesInEmissionOrder(resp.detections, call.raw)
    /\ FastPredictSent =>
          IsSortedDesc(resp.detections) /\ TiesInEmissionOrder(resp.detections, call.raw)
    /\ \A w \in Workers :
          GrpcPredictDone(w) =>
              /\ IsSortedDesc(wresp[w].detections)
              /\ TiesInEmissionOrder(wresp[w].detections, wl[w].raw)

\* the max-detections cap of a request: its own, or the default
ReqCap(c) == IF c.max_detections = Absent THEN DefaultMaxDet ELSE c.max_detections

\* C8: a Predict result never holds more detections than the cap its request gave.
C8_CapRespected ==
    /\ HttpPredictSent => Len(resp.detections) <= ReqCap(req.config)
    /\ FastPredictSent => Len(resp.detections) <= ReqCap(req.config)

\* the detections that pass the handler's threshold, in emission order
Passing(fl, hh, raw) ==
    SelectSeq(IF fl = "stub" THEN StubDetections ELSE MapDetections(hh.classes, raw),
              LAMBDA d : d.confidence >= hh.confidence_threshold)

AllConfs == ConfVals \cup {87}

DetsAt(dets, c) == SelectSeq(dets, LAMBDA d : d.confidence = c)

\* out is the k highest-confidence detections of pass, first-emitted winning ties
IsTopK(out, pass, k) ==
    /\ Len(out) = Min(k, Len(pass))
    /\ IsSortedDesc(out)
    /\ \A c \in AllConfs : IsPrefix(DetsAt(out, c), DetsAt(pass, c))
    /\ \A c \in AllConfs, b \in AllConfs :
          (c > b /\ DetsAt(out, b) # <<>>) => DetsAt(out, c) = DetsAt(pass, c)

\* C9: truncation to max_detections comes after sorting: the result is the
\* max_detections highest-confidence passing detections (first-emitted winning
\* ties), not the first max_detections in emission order.
C9_TruncateAfterSort ==
    /\ (variant = "post" /\ spc = "sent") =>
          IsTopK(resp.detections, Passing(flavour, h, call.raw), h.max_detections)
    /\ (HttpPredictSent /\ resp.statuses = <<200>>) =>
          IsTopK(resp.detections, Passing(flavour, h, call.raw), h.max_detections)

\* more detections pass than the cap allows, and the first cap-many in emission order
\* are not the result
C9_Witness ==
    /\ variant = "post" /\ spc = "sent" /\ flavour = "ultra"
    /\ Len(Passing(flavour, h, call.raw)) > h.max_detections
    /\ resp.detections # Take(Passing(flavour, h, call.raw), h.max_detections)

\* the populated source of highest priority, "" when none is populated
FirstSource(rq) ==
    IF rq.image_path # "" THEN "path"
    ELSE IF rq.image_data # "" THEN "data"
    ELSE IF rq.image_url # "" THEN "url" ELSE ""

SourceValue(rq, src) ==
    CASE src = "path" -> rq.image_path
      [] src = "data" -> rq.image_data
      [] src = "url"  -> rq.image_url
      [] OTHER -> ""

\* C10: image-source resolution honours one source by the priority path > inline
\* data > URL: only the first populated field is read, and when it fails to load
\* the request fails without trying a lower-priority source.
C10_SourcePriority ==
    (HttpPredictSent /\ h.model # NoModel) =>
        LET src == FirstSource(req) IN
        /\ call.reads = IF src = "" THEN {} ELSE {src}
        /\ SourceValue(req, src) = "ok" => call.image = "img:" \o src
        /\ SourceValue(req, src) # "ok" =>
              /\ resp.statuses = <<500>> /\ resp.error = "Failed to load image"
              /\ call.image = NoImage /\ call.detCalls = 0

\* all three sources populated, the path unreadable, the others good
C10_Witness ==
    /\ HttpPredictSent /\ h.model # NoModel
    /\ req.image_path = "bad" /\ req.image_data = "ok" /\ req.image_url = "ok"
    /\ resp.error = "Failed to load image" /\ call.reads = {"path"}

\* C11: a request with no image-source field populated fails with the missing-source
\* error in a response that carries success false, and the detector is not invoked.
C11_MissingSourceFails ==
    /\ (HttpPredictSent /\ h.model # NoModel /\ FirstSource(req) = "") =>
          /\ "success" \in resp.keys /\ ~resp.success
          /\ resp.message = "No image source provided"
          /\ call.detCalls = 0
    /\ \A w \in Workers :
          (GrpcPredictDone(w) /\ wl[w].gate # NoModel /\ wl[w].image_data = "") =>
              /\ "success" \in wresp[w].keys /\ ~wresp[w].success
              /\ wresp[w].message = "No image data provided"
              /\ wl[w].detCalls = 0

\* why the image of a request cannot be acquired ("none": it can)
FailureKind(rq) ==
    LET src == FirstSource(rq)
    IN  IF src = "" THEN "ImageSourceMissing"
        ELSE IF SourceValue(rq, src) = "ok" THEN "none"
        ELSE IF SourceValue(rq, src) = "silent" THEN "blocked"
        ELSE IF src = "url" THEN "ImageFetchFailure"
        ELSE "ImageDecodeFailure"

AcquisitionFails(rq) ==
    rq.op = "predict"
    /\ FailureKind(rq) \in {"ImageSourceMissing", "ImageFetchFailure", "ImageDecodeFailure"}

\* C12: the error reported for an image that cannot be acquired tells the kind of
\* failure: requests failing for different kinds (missing source, decode failure,
\* fetch failure) are answered with different errors.
C12_FailureKindsDistinguished ==
    (HttpPredictSent /\ h.model # NoModel /\ AcquisitionFails(req)) =>
        \A rq \in HttpReqs :
            (AcquisitionFails(rq) /\ FailureKind(rq) # FailureKind(req)) =>
                HandleRequest(flavour, h, rq, NoEnv).resp.error # resp.error

\* C13: a remote fetch carries a bounded timeout, so a Predict that is being handled
\* can always complete: whatever the remote does, the handler has a step to take.
C13_FetchBounded ==
    (IsHttp /\ spc = "handle" /\ req.op = "predict") =>
        ENABLED (\E e \in EnvsOf(flavour, h, req) : Handle(e))

\* the detector of this call returned a result and the artifact could not be written
SaveFailed(c) == c.detCalls = 1 /\ c.env.detOk /\ ~c.env.save

\* C14: when drawing or saving the artifact fails, Predict still succeeds, with the
\* detections it computed and an empty artifact reference.
C14_SaveFailureNotFatal ==
    /\ (HttpPredictSent /\ flavour = "ultra" /\ SaveFailed(call)) =>
          /\ resp.statuses = <<200>> /\ "detections" \in resp.keys
          /\ resp.detections = PostprocessUltra(h, call.env.raw)
          /\ resp.artifact = NoArtifact
    /\ (FastPredictSent /\ SaveFailed(call)) =>
          /\ resp.success /\ resp.detections = MapDetections(classes, call.env.raw)
          /\ resp.artifact = ""
    /\ \A w \in Workers :
          (GrpcPredictDone(w) /\ wl[w].saved = "failed") =>
              /\ wresp[w].success /\ wresp[w].detections = wl[w].dets
              /\ Len(wl[w].dets) = Len(wl[w].raw) /\ wresp[w].artifact = ""

\* the save failed and the reply carries the detections
C14_Witness ==
    /\ HttpPredictSent /\ flavour = "ultra" /\ SaveFailed(call)
    /\ resp.detections # <<>> /\ resp.artifact = NoArtifact

\* C15: Save never overwrites a prior artifact: the saves completed so far, those of
\* one second included, wrote pairwise distinct file names.
C15_DistinctFilenames ==
    variant = "store" =>
        /\ \A i \in 1..Len(saves), j \in 1..Len(saves) :
              i # j => saves[i].name # saves[j].name
        /\ \A i \in 1..Len(saves) : ~saves[i].replaced

\* C16: a Load that fails is not fatal: the process goes on serving, and the readiness
\* query reports the model as not loaded.
C16_LoadFailureNotFatal ==
    /\ variant = "fastapi" => fpc # "dead"
    /\ (IsHttp /\ lpc = "failed" /\ spc = "sent" /\ req.op = "health") =>
          resp.statuses = <<200>> /\ ~resp.model_loaded

\* C17: Load performs one warm-up inference before the model is Ready: a Load whose
\* warm-up failed ends in failure and installs no model, and a Load that reports
\* success has called the detector once.
C17_WarmUpGatesReady ==
    /\ (IsHttp /\ hist.warmFailed) => (lpc = "failed" /\ tmp.model = NoModel)
    /\ \A w \in Workers :
          (variant = "grpc" /\ wpc[w] = "done" /\ wl[w].op = "load" /\ wresp[w].success)
              => wl[w].detCalls = 1

\* worker w is inside LoadModel
InLoad(w) == variant = "grpc" /\ wpc[w] \in {"l_path", "l_model", "l_names"}

\* C18: two Loads never run concurrently: while one worker is inside LoadModel, a
\* Load issued on another worker is rejected and does not enter it.
C18_LoadsExcluded ==
    \A w1 \in Workers, w2 \in Workers : (w1 # w2 /\ InLoad(w1)) => ~InLoad(w2)

\* this step is the successful return of a LoadModel
LoadSucceeds ==
    \E w \in Workers :
        /\ wl[w].op = "load" /\ wpc[w] # "done"
        /\ wpc'[w] = "done" /\ wresp'[w].success

\* C19: readiness changes only along the transitions of the registry; in particular
\* the model that Predict's gate reports Ready changes only in the step in which a
\* Load of it has fully succeeded.
C19_ReadyOnlyAfterLoad ==
    [][(variant = "grpc" /\ model' # model) => LoadSucceeds]_vars

\* the detector handle, class table and model path of a handler object
ModelOf(hh) == <<hh.model, hh.classes, hh.model_path>>

\* C20: only Load changes the current model: handling a Predict, a readiness query or
\* a model-info query neither constructs a detector nor changes the detector handle,
\* the class table or the model path; in the gRPC servicer they change only in steps
\* of a LoadModel call.
C20_OnlyLoadMutates ==
    [][/\ (IsHttp /\ spc = "handle" /\ spc' = "sent") =>
             /\ ModelOf(h') = ModelOf(h) /\ tmp' = tmp
             /\ ~call'.ctor
       /\ (variant = "fastapi" /\ fpc = "serving") => regVars' = regVars
       /\ (variant = "grpc" /\ regVars' # regVars) =>
             \E w \in Workers : wl[w].op = "load" /\ wpc'[w] # wpc[w]]_vars

\* a Predict has gone through the detector with the model the loader installed
C20_Witness ==
    /\ HttpPredictSent /\ flavour = "ultra" /\ call.detCalls = 1
    /\ ModelOf(h) = ModelOf(tmp) /\ ~call.ctor

\* The reply of a Predict call with locals l that runs alone on a servicer holding
\* model m and class table cls
AloneReply(m, cls, l) ==
    IF m = NoModel THEN GReply(FALSE, "Model not loaded", <<>>, "")
    ELSE IF l.image_data = "" THEN GReply(FALSE, "No image data provided", <<>>, "")
    ELSE IF l.image_data = "bad"
    THEN GReply(FALSE, "Inference failed: cannot identify image", <<>>, "")
    ELSE IF l.saved = ""
    THEN GReply(FALSE, "Inference failed: detector error", <<>>, "")
    ELSE GReply(TRUE, "", MapDetections(cls, l.raw),
                IF l.saved = "ok" THEN "file" ELSE "")

\* C21: While no LoadModel call is in progress, concurrent Predict calls do not
\* interfere: in every interleaving the reply of each call (its detections with
\* their class names, its failure text) is the reply the same call gets when it runs
\* alone on the servicer.
C21_PredictsIndependent ==
    variant = "grpc" =>
        \A w \in Workers :
            GrpcPredictDone(w) =>
                /\ wresp[w] = AloneReply(model, classes, wl[w])
                /\ wl[w].conf = GrpcConf
                /\ wl[w].gate = model

\* two Predict calls overlap on different detector outputs, and one has replied
C21_Witness ==
    \E w, v \in Workers :
        /\ w # v /\ GrpcPredictDone(w) /\ wresp[w].success
        /\ Len(wresp[w].detections) = 2
        /\ wl[v].op = "predict" /\ wpc[v] \in {"len", "name", "save"}
        /\ wl[v].raw # <<>> /\ wl[v].raw # wl[w].raw
        /\ wl[v].dets # <<>>
\* C22: Requests are handled concurrently: while one Predict is in progress, one
\* blocked in the fetch of a remote image included, the service can take up another
\* Predict or a readiness query.
C22_ReadersNotSerialized ==
    /\ (IsHttp /\ spc = "handle" /\ req.op = "predict") =>
            ENABLED (\E rq \in HttpReqs : Accept(rq))
    /\ \A w, v \in Workers :
            (variant = "grpc" /\ wl[w].op = "predict" /\ wpc[w] # "done"
                /\ wpc[v] = "idle") => ENABLED GPredictCall(v, "ok")

\* a Predict whose image can be read and whose detector (where there is one) runs
ValidHttpPredict ==
    /\ HttpPredictSent
    /\ LoadImage(req.image_path, req.image_data, req.image_url).image # NoImage
    /\ flavour = "ultra" => (call.env.imp /\ call.env.detOk)

NamedBy(table, d) ==
    /\ d.class_name # ""
    /\ d.class_name = IF d.class_id + 1 \in DOMAIN table THEN table[d.class_id + 1]
                      ELSE "class_" \o ToString(d.class_id)

AllNamedBy(tables, dets) ==
    \A i \in DOMAIN dets :
        dets[i].class_id >= 0 => \E t \in tables : NamedBy(t, dets[i])

\* C24: Every detection returned has a non-empty class name: the entry of the model's
\* class table at its class id when the id is within the table, class_<id> otherwise
\* (gRPC: of a table the servicer held while the call named the detection).
C24_ClassNameDefined ==
    /\ (HttpPredictSent /\ flavour = "ultra" /\ resp.statuses = <<200>>) =>
            AllNamedBy({h.classes}, resp.detections)
    /\ (FastPredictSent /\ resp.success) => AllNamedBy({classes}, resp.detections)
    /\ \A w \in Workers :
            (GrpcPredictDone(w) /\ wresp[w].success) =>
                AllNamedBy(wl[w].tables, wresp[w].detections)

\* one response names a detection from the table and another by its id
C24_Witness ==
    /\ HttpPredictSent /\ flavour = "ultra" /\ resp.statuses = <<200>>
    /\ \E i, j \in DOMAIN resp.detections :
            /\ resp.detections[i].class_name = "motorcycle"
            /\ resp.detections[j].class_name = "class_5"

\* the readiness answer r reports a holder of model m at path mp with class table cls
ReportsModel(r, m, mp, cls) ==
    /\ {"model_loaded", "model_path", "classes_count"} \subseteq r.keys
    /\ r.model_loaded = (m # NoModel)
    /\ r.model_path = mp
    /\ r.classes_count = Len(cls)

\* C25: The readiness query answers with modelLoaded, modelPath and classCount of the
\* model Predict would use: modelLoaded is true exactly when that model is held, and
\* the path and the class count are its own.
C25_ReadinessReflectsRegistry ==
    /\ (IsHttp /\ spc = "sent" /\ req.op = "health") =>
            ReportsModel(resp, h.model, h.model_path, h.classes)
    /\ (variant = "fastapi" /\ spc = "sent" /\ req.op = "health") =>
            ReportsModel(resp, model, model_path, classes)

\* C26: Retrieve(name) returns, for every name a successful Save produced, the
\* artifact that Save wrote, unmodified by any later operation, and NotFound for a
\* name no Save produced.
C26_RetrieveReturnsSaved ==
    variant = "store" =>
        /\ \A i \in 1..Len(saves) :
              Retrieve(saves[i].name) = [status |-> 200, content |-> saves[i].uuid]
        /\ \A t \in 0..MaxNow, u \in Uuids :
              (\A i \in 1..Len(saves) : saves[i].name # Filename(t, u)) =>
                  Retrieve(Filename(t, u)).status = 404

\* C27: Nothing is retried: within one Predict the image is acquired from at most one
\* source, the detector is called at most once and the save is attempted at most
\* once; a stage that fails shows in the response (an error for the image and the
\* detector, the absent artifact for the save).
C27_NoRetry ==
    HttpPredictSent =>
        /\ Cardinality(call.reads) <= 1
        /\ call.detCalls <= 1
        /\ (call.reads # {} /\ call.image = NoImage) =>
                (resp.statuses = <<500>> /\ call.detCalls = 0)
        /\ (flavour = "ultra" /\ h.model # NoModel /\ call.image # NoImage
                /\ call.env.imp /\ ~call.env.detOk) =>
                (resp.statuses = <<500>> /\ call.detCalls = 1)
        /\ SaveFailed(call) => resp.artifact = NoArtifact

\* the detector failed on its one call and the response is the error
C27_Witness ==
    /\ HttpPredictSent /\ flavour = "ultra" /\ call.image # NoImage
    /\ call.detCalls = 1 /\ ~call.env.detOk /\ resp.statuses = <<500>>

\* the save routine has drawn the box of a detection
BoxDrawn == variant = "annot" /\ ann.pc = "drawn" /\ ann.target # "none"

\* a float32 operation with exact value n gives n
Exact(n) == Rnd(n) = n

C29_LabelClamped ==
    BoxDrawn =>
        /\ ann.label_y >= 0
        /\ ann.svc = "http" =>
                ann.label_y = Max(ann.corners.y1 - ann.th - LabelMargin, 0)

\* C30: The save routine draws on a copy: after it has run, the file written or
\* not, the image the caller holds has the pixels it had.
C30_InputUntouched ==
    (variant = "annot" /\ ann.pc = "drawn") =>
        /\ ann.input = "orig"
        /\ ann.target # "input"

\* the HTTP save routine has drawn for an array it could share memory with, and the
\* write of the file failed
C30_Witness ==
    /\ BoxDrawn /\ ann.svc = "http" /\ ann.kind = "array2"
    /\ ann.target = "copy" /\ ~ann.saved /\ ann.input = "orig"

StubAnswered == HttpPredictSent /\ flavour = "stub" /\ resp.statuses = <<200>>

\* C32: The placeholder service returns exactly those of its two fixed detections
\* (confidences 0.95 and 0.87) whose confidence is at least the request's threshold,
\* in their original order; with threshold 0.9 that is the 0.95 detection alone.
C32_StubFiltersByThreshold ==
    StubAnswered =>
        LET AtLeast(d) == d.confidence >= ReqConf(req.config)
        IN  /\ resp.detections = SelectSeq(StubDetections, AtLeast)
            /\ ReqConf(req.config) = 90 => resp.detections = <<StubDetections[1]>>

\* a request with threshold 0.9 is answered with the 0.95 detection alone
C32_Witness ==
    /\ StubAnswered /\ req.config.confidence = 90
    /\ Len(resp.detections) = 1 /\ resp.detections[1].confidence = 95

\* worker w has returned the failure of a LoadModel while no other call is running
LoadFailedAlone(w) ==
    /\ variant = "grpc" /\ wpc[w] = "done" /\ wl[w].op = "load" /\ ~wresp[w].success
    /\ \A v \in Workers \ {w} : wpc[v] = "idle"

\* C33: A LoadModel that fails leaves the registry as it was: the path reported is
\* still the path of the model that serves Predict, and the class table is that
\* model's.
C33_FailedLoadChangesNothing ==
    \A w \in Workers :
        (LoadFailedAlone(w) /\ model # NoModel) =>
            (model_path = model /\ classes = TableOf(model))

\* C34: The check for the model comes before the image: a Predict that finds no model
\* reads no file, decodes no inline data and fetches nothing, and the failure it
\* reports is the model-not-loaded one also when the request names no image source.
C34_GateBeforeImage ==
    /\ (HttpPredictSent /\ h.model = NoModel) =>
          /\ call.reads = {} /\ call.image = NoImage
          /\ resp.error = "YOLO model not loaded"
    /\ (FastPredictSent /\ model = NoModel) => call.reads = {}
    /\ \A w \in Workers :
          (GrpcPredictDone(w) /\ wl[w].gate = NoModel) =>
              wresp[w].message = "Model not loaded"

\* a Predict without model and without image source is told of the model
C34_Witness ==
    /\ HttpPredictSent /\ h.model = NoModel
    /\ req.image_path = "" /\ req.image_data = "" /\ req.image_url = ""
    /\ resp.error = "YOLO model not loaded" /\ call.reads = {}

\* C35: A Predict writes at most one file to the results directory and only after
\* the detector has succeeded: a request that fails at the gate, at the image or in
\* the detector writes none, and an answered request references exactly the file it
\* wrote (none when the save failed).
C35_ArtifactOnlyAfterDetection ==
    HttpPredictSent =>
        /\ Len(call.files) <= 1
        /\ resp.statuses # <<200>> => call.files = <<>>
        /\ call.files # <<>> => (call.detCalls = 1 /\ call.env.detOk /\ call.env.save)
        /\ resp.statuses = <<200>> =>
              IF call.files = <<>> THEN resp.artifact \in {NoArtifact, ""}
              ELSE call.files = <<resp.artifact>>

\* the detector has failed and no file was written, although the save would have
\* succeeded
C35_Witness ==
    /\ HttpPredictSent /\ flavour = "ultra" /\ call.detCalls = 1
    /\ ~call.env.detOk /\ call.env.save /\ call.files = <<>>
    /\ resp.statuses = <<500>>

\* C36: Every POST the HTTP server handles gets exactly one status line: 200 with
\* the result, 500 with an error body, or 404 for a path other than /predict; none
\* gets a second one, also when something fails after the 200 status has gone out.
C36_OneStatusPerPost ==
    (IsHttp /\ spc \in {"sent", "resent"}
        /\ req.op \in {"predict", "junk", "other_post"}) =>
        /\ Len(resp.statuses) = 1
        /\ resp.statuses[1] \in {200, 500, 404}
        /\ (resp.statuses = <<404>>) <=> (req.op = "other_post")

\* the IoU threshold of a request: its own, or the default
ReqIou(c) == IF c.iou_threshold = Absent THEN DefaultIou ELSE c.iou_threshold

\* an answered Predict (status 200 alone, body written or about to be)
HttpPredictOk == HttpPredictSent /\ resp.statuses = <<200>>

\* C37: the model_info block of a Predict response reports exactly the
\* confidence and IoU thresholds that were applied to that request: the
\* request's overrides when given, otherwise the defaults; the detections
\* returned are the detector's output filtered at the reported confidence.
C37_ModelInfoReportsApplied ==
    HttpPredictOk =>
        /\ resp.conf = ReqConf(req.config)
        /\ resp.iou = ReqIou(req.config)
        /\ resp.conf = h.confidence_threshold
        /\ resp.iou = h.iou_threshold
        /\ AllAtLeast(resp.detections, resp.conf)
        /\ flavour = "ultra" =>
              resp.detections = PostprocessUltra([h EXCEPT !.confidence_threshold = resp.conf],
                                                 call.raw)
        /\ flavour = "stub" =>
              resp.detections = PostprocessStub([h EXCEPT !.confidence_threshold = resp.conf])

\* a Predict with overrides of both thresholds is answered, and the reported
\* confidence threshold has removed one of the detector's boxes
C37_Witness ==
    /\ HttpPredictOk /\ flavour = "ultra"
    /\ req.config.confidence \notin {Absent, DefaultConf}
    /\ req.config.iou_threshold \notin {Absent, DefaultIou}
    /\ resp.conf = req.config.confidence
    /\ Len(resp.detections) = 1 /\ Len(call.raw) = 2

====
